---- MODULE Spec2Model ----
(***************************************************************************)
(* Method Analysis Dashboard: the co-occurrence pipeline                   *)
(* (data_processing.py), the selection / highlight callbacks               *)
(* (callbacks.py, layout.py) and the edge selection of the network plot    *)
(* (plotting.py).                                                          *)
(*                                                                         *)
(* Python values are encoded as follows.                                   *)
(*   str            a sequence of one-character strings, <<"l","p">>       *)
(*   None, NaN      the one-element sequences <<"None">>, <<"NaN">>;       *)
(*                  << <<"None">> >> where the value is otherwise a list   *)
(*   list           a sequence                                             *)
(*   dict           a function; d.get(k) is guarded by k \in DOMAIN d      *)
(*   Optional[int], Optional[set]   <<>> for None, <<v>> for a value       *)
(*   DataFrame      a sequence of rows, each row a tuple of its cells      *)
(*   a tuple, an object with fields: a tuple read through named accessors  *)
(***************************************************************************)
EXTENDS Integers, Sequences, FiniteSets, TLC

VARIABLES
    selected_methods,        \* dcc.Store 'selected-methods-store'
    highlighted_method,      \* dcc.Store 'highlighted-method-store'
    highlighted_edge,        \* dcc.Store 'highlighted-edge-store'
    pending,                 \* callbacks whose initial (untriggered) invocation is outstanding
    last,                    \* the event most recently delivered to a callback
    all_methods,             \* data['all_methods']
    method_totals,           \* data['method_totals']
    method_to_category_map,  \* data['method_to_category_map']
    cooc_matrix,             \* data['cooc_matrix']: <<its index, its off-diagonal counts>>
    paper_method_binary,     \* data['paper_method_binary']: <<columns, index, cells>>
    papers_df,               \* data['papers_df']: rows <<paperId, year, citationCount>>
    df,                      \* the wide per-paper table given to the pipeline
    call,                    \* the arguments of the pipeline / plot call made
    outcome,                 \* what that call returned or raised
    figure,                  \* what create_network_plot computed
    matching,                \* the frame get_papers_for_methods returned
    alone,                   \* per user, the stores had only that user's events been served
    panel                    \* the paper-details panel: <<display, title, content>>

uiVars   == <<selected_methods, highlighted_method, highlighted_edge, pending, last>>
dataVars == <<all_methods, method_totals, method_to_category_map, cooc_matrix,
              paper_method_binary, papers_df>>
pipeVars == <<df, call, outcome>>
viewVars == <<figure, matching, alone, panel>>
vars     == <<selected_methods, highlighted_method, highlighted_edge, pending, last,
              all_methods, method_totals, method_to_category_map, cooc_matrix,
              paper_method_binary, papers_df,
              df, call, outcome, figure, matching, alone, panel>>

None     == <<"None">>     \* None where a str is expected
NoneList == <<None>>       \* None where a list of str is expected
NaN      == <<"NaN">>      \* a missing cell

(***************************************************************************)
(* Strings and lists                                                       *)
(***************************************************************************)

\* The characters of the model in code-point order (Python compares str by code point).
Alphabet ==
    <<" ", "-", "A", "B", "C", "D", "E", "F", "G", "H", "I", "J", "K", "L", "M",
      "N", "O", "P", "Q", "R", "S", "T", "U", "V", "W", "X", "Y", "Z", "_",
      "a", "b", "c", "d", "e", "f", "g", "h", "i", "j", "k", "l", "m",
      "n", "o", "p", "q", "r", "s", "t", "u", "v", "w", "x", "y", "z">>

Ord(c) == CHOOSE i \in 1..Len(Alphabet) : Alphabet[i] = c

RECURSIVE StrLess(_, _)
StrLess(s, t) ==
    IF t = <<>> THEN FALSE
    ELSE IF s = <<>> THEN TRUE
    ELSE IF Head(s) = Head(t) THEN StrLess(Tail(s), Tail(t))
    ELSE Ord(Head(s)) < Ord(Head(t))

\* str.lower() on one character: "A".."Z" are 27 places before "a".."z"
LowerChar(c) == IF Ord(c) \in 3..28 THEN Alphabet[Ord(c) + 27] ELSE c

Lower(s) == [i \in 1..Len(s) |-> LowerChar(s[i])]

Range(s) == {s[i] : i \in 1..Len(s)}

In(x, s) == \E i \in 1..Len(s) : s[i] = x

Min(a, b) == IF a <= b THEN a ELSE b

\* s[:n] for n >= 0
Take(s, n) == SubSeq(s, 1, Min(n, Len(s)))

\* list.remove(x): drops the first occurrence of x
RECURSIVE ListRemove(_, _)
ListRemove(s, x) ==
    IF s = <<>> THEN <<>>
    ELSE IF Head(s) = x THEN Tail(s)
    ELSE <<Head(s)>> \o ListRemove(Tail(s), x)

\* [x for x in s if x in keep]
RECURSIVE Filter(_, _)
Filter(s, keep) ==
    IF s = <<>> THEN <<>>
    ELSE IF Head(s) \in keep THEN <<Head(s)>> \o Filter(Tail(s), keep)
    ELSE Filter(Tail(s), keep)

\* An assignment x = value followed by code that reads x: value is computed once.
With(value, Rest(_)) == CHOOSE result \in {Rest(x) : x \in {value}} : TRUE

\* sorted(set) of strings, ascending: the order pandas gives a grouped index
RECURSIVE SortedStrings(_)
SortedStrings(S) ==
    IF S = {} THEN <<>>
    ELSE LET m == CHOOSE x \in S : \A y \in S \ {x} : StrLess(x, y)
         IN  <<m>> \o SortedStrings(S \ {m})

\* Insert x into a list already ordered by key descending, after every element of
\* equal key: sorted(..., key=key, reverse=True) is stable.
RECURSIVE InsertDesc(_, _, _)
InsertDesc(s, x, key) ==
    IF s = <<>> THEN <<x>>
    ELSE IF key[Head(s)] >= key[x] THEN <<Head(s)>> \o InsertDesc(Tail(s), x, key)
    ELSE <<x>> \o s

RECURSIVE SortDescStable(_, _)
SortDescStable(s, key) ==
    IF s = <<>> THEN <<>>
    ELSE InsertDesc(SortDescStable(SubSeq(s, 1, Len(s) - 1), key), s[Len(s)], key)

(***************************************************************************)
(* data_processing.py: normalize_method_name                               *)
(***************************************************************************)

\* str.upper() on one character
UpperChar(c) == IF Ord(c) \in 30..55 THEN Alphabet[Ord(c) - 27] ELSE c

Upper(s) == [i \in 1..Len(s) |-> UpperChar(s[i])]

RECURSIVE LStrip(_)
LStrip(s) == IF s # <<>> /\ Head(s) = " " THEN LStrip(Tail(s)) ELSE s

RECURSIVE RStrip(_)
RStrip(s) == IF s # <<>> /\ s[Len(s)] = " " THEN RStrip(SubSeq(s, 1, Len(s) - 1)) ELSE s

\* str.strip()
Strip(s) == RStrip(LStrip(s))

StartsWith(s, prefix) ==
    /\ Len(prefix) <= Len(s)
    /\ SubSeq(s, 1, Len(prefix)) = prefix

\* str.replace(old, new): every non-overlapping occurrence, left to right
RECURSIVE Replace(_, _, _)
Replace(text, old, new) ==
    IF text = <<>> THEN <<>>
    ELSE IF StartsWith(text, old)
         THEN new \o Replace(SubSeq(text, Len(old) + 1, Len(text)), old, new)
         ELSE <<Head(text)>> \o Replace(Tail(text), old, new)

\* the first word of a text that starts with a non-blank character
RECURSIVE FirstWord(_)
FirstWord(s) ==
    IF s = <<>> \/ Head(s) = " " THEN <<>> ELSE <<Head(s)>> \o FirstWord(Tail(s))

\* the text with its whitespace left as it is
JoinSplit_kept(text) == text

\* ' '.join(text.split())
RECURSIVE JoinSplit(_)
JoinSplit(text) ==
    LET t == LStrip(text)
        w == FirstWord(t)
        rest == LStrip(SubSeq(t, Len(w) + 1, Len(t)))
    IN  IF t = <<>> THEN <<>>
        ELSE IF rest = <<>> THEN w
        ELSE w \o <<" ">> \o JoinSplit(rest)

\* config.SPELLING_MAP, in the order of the dict
SPELLING_MAP ==
    <<<<<<"o", "p", "t", "i", "m", "i", "s", "a", "t", "i", "o", "n">>,
        <<"o", "p", "t", "i", "m", "i", "z", "a", "t", "i", "o", "n">>>>,
      <<<<"o", "p", "t", "i", "m", "i", "s", "e">>,
        <<"o", "p", "t", "i", "m", "i", "z", "e">>>>,
      <<<<"o", "p", "t", "i", "m", "i", "s", "e", "d">>,
        <<"o", "p", "t", "i", "m", "i", "z", "e", "d">>>>,
      <<<<"o", "p", "t", "i", "m", "i", "s", "i", "n", "g">>,
        <<"o", "p", "t", "i", "m", "i", "z", "i", "n", "g">>>>,
      <<<<"b", "e", "h", "a", "v", "i", "o", "u", "r">>,
        <<"b", "e", "h", "a", "v", "i", "o", "r">>>>,
      <<<<"m", "o", "d", "e", "l", "l", "i", "n", "g">>,
        <<"m", "o", "d", "e", "l", "i", "n", "g">>>>,
      <<<<"c", "o", "l", "o", "u", "r">>,
        <<"c", "o", "l", "o", "r">>>>,
      <<<<"c", "e", "n", "t", "r", "e">>,
        <<"c", "e", "n", "t", "e", "r">>>>,
      <<<<"a", "n", "a", "l", "y", "s", "e">>,
        <<"a", "n", "a", "l", "y", "z", "e">>>>,
      <<<<"p", "a", "r", "a", "m", "e", "t", "e", "r", "i", "s", "e">>,
        <<"p", "a", "r", "a", "m", "e", "t", "e", "r", "i", "z", "e">>>>>>

\* for uk, us in SPELLING_MAP.items(): text = text.replace(uk, us)
RECURSIVE ApplySpellings(_, _)
ApplySpellings(text, spellings) ==
    IF spellings = <<>> THEN text
    ELSE ApplySpellings(Replace(text, Head(spellings)[1], Head(spellings)[2]), Tail(spellings))

normalize_method_name(method) ==
    IF method = NaN THEN method
    ELSE LET lowered  == Strip(Lower(method))
             unhyphen == Replace(Replace(lowered, <<"-">>, <<" ">>), <<"_">>, <<" ">>)
             spelled  == ApplySpellings(unhyphen, SPELLING_MAP)
         IN  JoinSplit(spelled)

(***************************************************************************)
(* data_processing.py: build_cooccurrence_from_methods                     *)
(*                                                                         *)
(* A row of the wide table is                                              *)
(*   <<paperId, year, citationCount, Primary_Topic_Index,                  *)
(*     Secondary_Topic_Index, <<Method_1, Method_2, ...>>>>                *)
(* where the Method_i cells after the listed ones are missing (NaN).       *)
(***************************************************************************)
PaperId(row) == row[1]

Year(row) == row[2]

CitationCount(row) == row[3]

PrimaryTopic(row) == row[4]

SecondaryTopic(row) == row[5]

\* method_cols = [f'Method_{i}' for i in range(1, 11)]
NumMethodCols == 10

\* row['Method_i']
MethodCell(row, i) == IF i <= Len(row[6]) THEN row[6][i] ELSE NaN

ANY == <<"A", "N", "Y">>
PRIMARY == <<"P", "R", "I", "M", "A", "R", "Y">>
SECONDARY == <<"S", "E", "C", "O", "N", "D", "A", "R", "Y">>
BOTH == <<"B", "O", "T", "H">>

\* what a call returns or raises:
\*   <<kind, index, papers, paper_method_binary, method_totals, cooc, df_work>>
\* kind "matrices": the three frames, with their method index and paper index;
\* kind "none": (None, None, None); kind "raised": an exception, named in index.
\* df_work is the set of papers the filters left (the frame is empty when the
\* call returns None, and not complete when it raises).
NoData == <<"none", <<>>, <<>>, <<>>, <<>>, <<>>, {}>>

Raised(exception) == <<"raised", exception, <<>>, <<>>, <<>>, <<>>, {}>>

ResultKind(result) == result[1]

ResultIndex(result) == result[2]

ResultPapers(result) == result[3]

ResultIncidence(result) == result[4]

ResultTotals(result) == result[5]

ResultCooc(result) == result[6]

ResultWork(result) == result[7]

\* a mask that reads BOTH as ANY
TopicMask_both_as_any(row, topic_filter_set, mode) ==
    IF mode = PRIMARY THEN PrimaryTopic(row) \in topic_filter_set
    ELSE IF mode = SECONDARY THEN SecondaryTopic(row) \in topic_filter_set
    ELSE PrimaryTopic(row) \in topic_filter_set \/ SecondaryTopic(row) \in topic_filter_set

\* the mask of the topic filter for one row, topic_mode already upper-cased
TopicMask(row, topic_filter_set, mode) ==
    IF mode = ANY
    THEN PrimaryTopic(row) \in topic_filter_set \/ SecondaryTopic(row) \in topic_filter_set
    ELSE IF mode = PRIMARY THEN PrimaryTopic(row) \in topic_filter_set
    ELSE IF mode = SECONDARY THEN SecondaryTopic(row) \in topic_filter_set
    ELSE PrimaryTopic(row) \in topic_filter_set /\ SecondaryTopic(row) \in topic_filter_set

\* the cell keeps the size of its group
Binary_keeps_size(size) == size

\* a cell of (paper_method > 0).astype(int)
Binary(size) == IF size > 0 THEN 1 ELSE 0

\* a product that sums one column only
Dot_one_column(matrix, rows, a, b) ==
    Cardinality({q \in rows : matrix[<<q, a>>] = 1})

\* entry (a, b) of matrix.T @ matrix: the sum over the rows of the products of
\* the two columns' cells
RECURSIVE Dot(_, _, _, _)
Dot(matrix, rows, a, b) ==
    IF rows = {} THEN 0
    ELSE LET q == CHOOSE q \in rows : TRUE
         IN  matrix[<<q, a>>] * matrix[<<q, b>>] + Dot(matrix, rows \ {q}, a, b)

\* lines 151-185: the matrices of a non-empty filtered table.  Each frame the code
\* assigns (df_long, its pruned copy, paper_method_binary) is computed once, by
\* With, and the later frames are computed from it.
Matrices(df_work, min_papers, normalize_methods) ==
    LET Cell(row, i) ==
            IF normalize_methods
            THEN normalize_method_name(MethodCell(row, i))
            ELSE MethodCell(row, i)
        \* melt(...): one row per (paper, method column)
        melted == {<<PaperId(df_work[k]), i, Cell(df_work[k], i)>> :
                       k \in 1..Len(df_work), i \in 1..NumMethodCols}
        Frames(kept) ==
            LET papers == {t[1] : t \in kept}
                methods == {t[3] : t \in kept}
                \* groupby([paper_id_col, 'Method']).size().unstack(fill_value=0)
                paper_method == [c \in papers \X methods |->
                                     Cardinality({t \in kept : t[1] = c[1] /\ t[3] = c[2]})]
                Products(binary) ==
                    \* paper_method_binary.T @ paper_method_binary
                    LET product == [c \in methods \X methods |->
                                        Dot(binary, papers, c[1], c[2])]
                        \* pd.Series(np.diag(cooc.values), index=cooc.index)
                        diagonal == [m \in methods |-> product[<<m, m>>]]
                        \* np.fill_diagonal(cooc.values, np.nan): no count on the diagonal
                        cooc == [c \in {c \in methods \X methods : c[1] # c[2]} |-> product[c]]
                    IN  <<"matrices", SortedStrings(methods), papers,
                          binary, diagonal, cooc,
                          {PaperId(df_work[k]) : k \in 1..Len(df_work)}>>
            IN  With([c \in papers \X methods |-> Binary(paper_method[c])], Products)
        Pruned(df_long) ==
            \* df_long['Method'].value_counts()
            LET method_counts == [m \in {t[3] : t \in df_long} |->
                                      Cardinality({t \in df_long : t[3] = m})]
                frequent_methods ==
                    {m \in DOMAIN method_counts : method_counts[m] >= min_papers}
            IN  With({t \in df_long : t[3] \in frequent_methods}, Frames)
    \* .dropna(subset=['Method'])
    IN  With({t \in melted : t[3] # NaN}, Pruned)

build_cooccurrence_from_methods(d, min_papers, year_filter, citation_filter, normalize_methods, topic_filter, topic_mode) ==
    LET YearOk(row) == Year(row) >= year_filter[1]
        CitationsOk(row) == CitationCount(row) >= citation_filter
        TopicOk(row) == TopicMask(row, topic_filter[1], Upper(topic_mode))
        by_year == IF year_filter # <<>> THEN SelectSeq(d, YearOk) ELSE d
        by_citations == IF citation_filter > 0 THEN SelectSeq(by_year, CitationsOk) ELSE by_year
    IN  IF topic_filter # <<>> /\ Upper(topic_mode) \notin {ANY, PRIMARY, SECONDARY, BOTH}
        THEN Raised("ValueError")
        ELSE LET df_work == IF topic_filter # <<>>
                            THEN SelectSeq(by_citations, TopicOk)
                            ELSE by_citations
             IN  IF df_work = <<>> THEN NoData
                 ELSE Matrices(df_work, min_papers, normalize_methods)

(***************************************************************************)
(* callbacks.py: helpers closed over the loaded data                       *)
(***************************************************************************)

\* method_to_category_map.get(m) in categories (categories holds no None)
CategoryIn(m, categories) ==
    /\ m \in DOMAIN method_to_category_map
    /\ method_to_category_map[m] \in categories

\* method_totals.get(x, 0)
TotalOf(x) == IF x \in DOMAIN method_totals THEN method_totals[x] ELSE 0

\* mutant: reverse=True forgotten, the smallest totals come first
get_top_n_methods_ascending(n, categories) ==
    LET eligible == Filter(all_methods, {m \in Range(all_methods) : CategoryIn(m, categories)})
        sorted_methods == SortDescStable(eligible, [m \in Range(eligible) |-> 0 - TotalOf(m)])
    IN  Take(sorted_methods, n)

get_top_n_methods(n, categories) ==
    LET eligible == Filter(all_methods, {m \in Range(all_methods) : CategoryIn(m, categories)})
        sorted_methods == SortDescStable(eligible, [m \in Range(eligible) |-> TotalOf(m)])
    IN  Take(sorted_methods, n)

(***************************************************************************)
(* Callback 2: update_selected_methods.  trigger is ctx.triggered[0]'s     *)
(* prop_id: the component id and, for a pattern-matching method-button,    *)
(* its index.  A normalized method name holds no '-', so the substring     *)
(* tests of the code on the prop_id decide by the component id.            *)
(***************************************************************************)
NoTrigger == <<"", None>>

TriggerId(trigger) == trigger[1]

TriggerIndex(trigger) == trigger[2]

TriggerOf(id) == <<id, None>>

MethodButton(m) == <<"method-button", m>>

\* mutant: a picked method is appended whether or not it is already selected
update_selected_methods_append_only(trigger, current_selected, top_n, selected_cats) ==
    IF trigger = NoTrigger THEN get_top_n_methods(top_n, selected_cats)
    ELSE IF TriggerId(trigger) = "clear-selection" THEN <<>>
    ELSE IF TriggerId(trigger) = "apply-top-n" THEN get_top_n_methods(top_n, selected_cats)
    ELSE IF TriggerId(trigger) = "method-button" THEN Append(current_selected, TriggerIndex(trigger))
    ELSE current_selected

update_selected_methods(trigger, current_selected, top_n, selected_cats) ==
    IF trigger = NoTrigger THEN get_top_n_methods(top_n, selected_cats)
    ELSE IF TriggerId(trigger) = "clear-selection" THEN <<>>
    ELSE IF TriggerId(trigger) = "apply-top-n" THEN get_top_n_methods(top_n, selected_cats)
    ELSE IF TriggerId(trigger) = "method-button" THEN
        LET clicked_method == TriggerIndex(trigger)
            current == IF current_selected = NoneList THEN <<>> ELSE current_selected
        IN  IF In(clicked_method, current)
            THEN ListRemove(current, clicked_method)
            ELSE Append(current, clicked_method)
    ELSE IF current_selected = NoneList THEN <<>> ELSE current_selected

(***************************************************************************)
(* Callback 4: handle_network_clicks.  clickData is None or holds one      *)
(* point; a point may carry customdata, a str (node trace), a list (edge   *)
(* marker trace) or something else.  The result is the pair written to     *)
(* the two highlight stores.                                               *)
(***************************************************************************)
\* <<clickData is not None, 'customdata' in point, type of customdata, the str, the list>>
NoClickData == <<FALSE, FALSE, "none", None, NoneList>>

PointWithoutCustomdata == <<TRUE, FALSE, "none", None, NoneList>>

NodePoint(m) == <<TRUE, TRUE, "str", m, NoneList>>

EdgePoint(pair) == <<TRUE, TRUE, "list", None, pair>>

\* customdata that is neither a str nor a list
OtherPoint == <<TRUE, TRUE, "other", None, NoneList>>

Present(clickData) == clickData[1]

HasCustomdata(clickData) == clickData[2]

CustomdataType(clickData) == clickData[3]

CustomdataStr(clickData) == clickData[4]

CustomdataList(clickData) == clickData[5]

\* mutant: an edge click keeps the highlighted method
handle_network_clicks_keeps_method(trigger, clickData, reset_clicks, current_highlighted) ==
    IF trigger = NoTrigger THEN <<None, NoneList>>
    ELSE IF TriggerId(trigger) = "reset-highlight" /\ reset_clicks > 0 THEN <<None, NoneList>>
    ELSE IF TriggerId(trigger) = "network-plot" /\ Present(clickData)
                /\ HasCustomdata(clickData) /\ CustomdataType(clickData) = "str"
         THEN IF current_highlighted = CustomdataStr(clickData)
              THEN <<None, NoneList>>
              ELSE <<CustomdataStr(clickData), NoneList>>
    ELSE IF TriggerId(trigger) = "network-plot" /\ Present(clickData)
                /\ HasCustomdata(clickData) /\ CustomdataType(clickData) = "list"
         THEN <<current_highlighted, CustomdataList(clickData)>>
    ELSE <<current_highlighted, NoneList>>

\* mutant: a node click never toggles off
handle_network_clicks_no_toggle(trigger, clickData, reset_clicks, current_highlighted) ==
    IF trigger = NoTrigger THEN <<None, NoneList>>
    ELSE IF TriggerId(trigger) = "reset-highlight" /\ reset_clicks > 0 THEN <<None, NoneList>>
    ELSE IF TriggerId(trigger) = "network-plot" /\ Present(clickData)
                /\ HasCustomdata(clickData) /\ CustomdataType(clickData) = "str"
         THEN <<CustomdataStr(clickData), NoneList>>
    ELSE IF TriggerId(trigger) = "network-plot" /\ Present(clickData)
                /\ HasCustomdata(clickData) /\ CustomdataType(clickData) = "list"
         THEN <<None, CustomdataList(clickData)>>
    ELSE <<current_highlighted, NoneList>>

handle_network_clicks(trigger, clickData, reset_clicks, current_highlighted) ==
    IF trigger = NoTrigger THEN <<None, NoneList>>
    ELSE IF TriggerId(trigger) = "reset-highlight" /\ reset_clicks > 0 THEN <<None, NoneList>>
    ELSE IF TriggerId(trigger) = "network-plot" /\ Present(clickData)
                /\ HasCustomdata(clickData) /\ CustomdataType(clickData) = "str"
         THEN LET method_name == CustomdataStr(clickData)
              IN  IF current_highlighted = method_name
                  THEN <<None, NoneList>>
                  ELSE <<method_name, NoneList>>
    ELSE IF TriggerId(trigger) = "network-plot" /\ Present(clickData)
                /\ HasCustomdata(clickData) /\ CustomdataType(clickData) = "list"
         THEN <<None, CustomdataList(clickData)>>
    ELSE <<current_highlighted, NoneList>>

\* paper_method_binary: <<columns, index, cells>>
Columns(binary) == binary[1]

PaperIndex(binary) == binary[2]

Cells(binary) == binary[3]

\* matching['year'] * 100 + matching['citationCount'] / 10, times ten: the float
\* sum orders the rows as this integer does
score(row) == Year(row) * 1000 + CitationCount(row)

\* the orders that put the lowest score first
SortValues_ascending(frame) ==
    {[i \in 1..Len(frame) |-> frame[order[i]]] : order \in
        {o \in Permutations(1..Len(frame)) :
            \A i, j \in 1..Len(frame) : i < j => score(frame[o[i]]) <= score(frame[o[j]])}}

\* matching.sort_values('score', ascending=False): the sort is not a stable one,
\* so rows of equal score come in any order
SortValues(frame) ==
    {[i \in 1..Len(frame) |-> frame[order[i]]] : order \in
        {o \in Permutations(1..Len(frame)) :
            \A i, j \in 1..Len(frame) : i < j => score(frame[o[i]]) >= score(frame[o[j]])}}

\* the frames get_papers_for_methods can return; pd.DataFrame() is <<>>
get_papers_for_methods(method1, method2, top_n) ==
    IF method1 \notin Columns(paper_method_binary) \/ method2 \notin Columns(paper_method_binary)
    THEN {<<>>}
    ELSE LET has_both(q) == /\ Cells(paper_method_binary)[<<q, method1>>] = 1
                            /\ Cells(paper_method_binary)[<<q, method2>>] = 1
             paper_ids == {q \in PaperIndex(paper_method_binary) : has_both(q)}
             IsIn(row) == PaperId(row) \in paper_ids
             Heads(found) ==
                 IF found = <<>> THEN {<<>>}
                 ELSE {Take(sorted, top_n) : sorted \in SortValues(found)}
         IN  IF paper_ids = {} THEN {<<>>}
             ELSE With(SelectSeq(papers_df, IsIn), Heads)

(***************************************************************************)
(* plotting.py: create_network_plot, up to the deduplicated edges          *)
(***************************************************************************)
CoocIndex(cooc) == cooc[1]

\* cooc_matrix.loc[method1, method2], method1 # method2
CoocAt(cooc, method1, method2) == cooc[2][<<method1, method2>>]

\* {'source': ..., 'target': ..., 'weight': ...}
Edge(source, target, weight) == <<source, target, weight>>

Source(edge) == edge[1]

Target(edge) == edge[2]

Weight(edge) == edge[3]

\* tuple(sorted([a, b]))
SortedPair(a, b) == IF StrLess(b, a) THEN <<b, a>> ELSE <<a, b>>

\* lines 51-60: the candidate edges of method1, in the order of methods_to_plot
RECURSIVE MethodEdges(_, _, _, _)
MethodEdges(method1, targets, cooc, min_cooc) ==
    IF targets = <<>> THEN <<>>
    ELSE LET method2 == Head(targets)
             rest == MethodEdges(method1, Tail(targets), cooc, min_cooc)
         IN  IF method1 # method2 /\ CoocAt(cooc, method1, method2) >= min_cooc
             THEN <<Edge(method1, method2, CoocAt(cooc, method1, method2))>> \o rest
             ELSE rest

\* the cut taken one edge late
KeptEdges_one_more(method1, methods_to_plot, cooc, min_cooc, max_edges) ==
    LET method_edges == MethodEdges(method1, methods_to_plot, cooc, min_cooc)
    IN  Take(SortDescStable(method_edges, [e \in Range(method_edges) |-> Weight(e)]),
             max_edges + 1)

\* the candidates without the cut at max_edges
KeptEdges_uncapped(method1, methods_to_plot, cooc, min_cooc, max_edges) ==
    MethodEdges(method1, methods_to_plot, cooc, min_cooc)

\* lines 61-62: method_edges.sort(key=weight, reverse=True); method_edges[:max_edges]
KeptEdges(method1, methods_to_plot, cooc, min_cooc, max_edges) ==
    LET Keep(method_edges) ==
            Take(SortDescStable(method_edges, [e \in Range(method_edges) |-> Weight(e)]),
                 max_edges)
    IN  With(MethodEdges(method1, methods_to_plot, cooc, min_cooc), Keep)

\* lines 49-62: edge_list, extended source by source
RECURSIVE EdgeList(_, _, _, _, _)
EdgeList(sources, methods_to_plot, cooc, min_cooc, max_edges) ==
    IF sources = <<>> THEN <<>>
    ELSE KeptEdges(Head(sources), methods_to_plot, cooc, min_cooc, max_edges)
             \o EdgeList(Tail(sources), methods_to_plot, cooc, min_cooc, max_edges)

\* a dict that takes only the edges proposed from the lower endpoint
UniqueEdges_lower_endpoint(edge_list, unique_edges) ==
    LET proposed == {edge \in Range(edge_list) : StrLess(Source(edge), Target(edge))}
    IN  [pair \in {<<Source(edge), Target(edge)>> : edge \in proposed} |->
            CHOOSE edge \in proposed : <<Source(edge), Target(edge)>> = pair]

\* lines 65-69: unique_edges, a dict from the sorted pair to the edge kept for it
RECURSIVE UniqueEdges(_, _)
UniqueEdges(edge_list, unique_edges) ==
    IF edge_list = <<>> THEN unique_edges
    ELSE LET edge == Head(edge_list)
             pair == SortedPair(Source(edge), Target(edge))
             Next_(updated) == UniqueEdges(Tail(edge_list), updated)
         IN  IF pair \notin DOMAIN unique_edges \/ Weight(edge) > Weight(unique_edges[pair])
             THEN With((pair :> edge) @@ unique_edges, Next_)
             ELSE UniqueEdges(Tail(edge_list), unique_edges)

\* _create_empty_figure("No methods to display. Adjust filters.")
EmptyFigure == <<"empty", <<>>, <<>>, <<>>>>

\* the figure as far as edge selection decides it:
\*   <<kind, methods_to_plot, edge_list, unique_edges>>
FigureKind(fig) == fig[1]

MethodsToPlot(fig) == fig[2]

EdgeListOf(fig) == fig[3]

UniqueEdgesOf(fig) == fig[4]

create_network_plot(cooc, selected, selected_categories, min_cooc, max_edges) ==
    LET Eligible(methods) == {m \in Range(methods) : CategoryIn(m, selected_categories)}
        methods_to_plot ==
            IF selected # NoneList /\ Len(selected) > 0
            THEN Filter(selected, Eligible(selected))
            ELSE Filter(CoocIndex(cooc), Eligible(CoocIndex(cooc)))
        Drawn(edge_list) ==
            <<"network", methods_to_plot, edge_list, UniqueEdges(edge_list, <<>>)>>
    IN  IF methods_to_plot = <<>> THEN EmptyFigure
        ELSE With(EdgeList(methods_to_plot, methods_to_plot, cooc, min_cooc, max_edges), Drawn)

(***************************************************************************)
(* The loaded data of the dashboard session (load_dashboard_data's         *)
(* metadata, unpacked by register_callbacks).                              *)
(***************************************************************************)
GA == <<"g", "a">>
LP == <<"l", "p">>
MC == <<"m", "c">>

\* the methods of the co-occurrence matrix in the sessions explored
MethodNames == {GA, LP, MC}

\* list(cooc_matrix.index): the grouped index is in ascending order
IndexList(methods) == SortedStrings(methods)

\* contents of config/method_categories.json explored: every method categorized,
\* one method without an entry, one method with an empty category
MethodCategoryFiles ==
    { [m \in {GA, LP, MC} |-> IF m = MC THEN "Simulation" ELSE "Optimization"],
      [m \in {GA, LP}     |-> IF m = GA THEN "Optimization" ELSE "Simulation"],
      [m \in {GA, LP, MC} |-> IF m = LP THEN "" ELSE "Optimization"] }

\* sorted(set(method_categories.values())) as a set
AllCategories(method_categories) == {method_categories[m] : m \in DOMAIN method_categories}

\* for method in all_methods: cat = method_categories.get(method.lower()); if cat: ...
CategoryMapOf(methods, method_categories) ==
    LET kept == {m \in Range(methods) :
                    /\ Lower(m) \in DOMAIN method_categories
                    /\ method_categories[Lower(m)] # ""}
    IN  [m \in kept |-> method_categories[Lower(m)]]

\* the category-checklist values a user can tick
CategoryChoices == SUBSET {"Optimization", "Simulation"}

\* largest method total of a session explored
MaxTotal == 2

\* largest position of the top-n slider explored, on the scale of MethodNames
MaxTopN == 3

\* largest n_clicks of the reset button explored
MaxClicks == 1

\* dcc.Slider(id='top-n-slider', ..., value=15)
TopNSliderValue == 15

(***************************************************************************)
(* The selection / highlight state machine                                 *)
(***************************************************************************)
\* an event: its kind and, as the kind has them, the method, the pair, the slider
\* value with the ticked categories, and the reset button's n_clicks
Event(kind, method, pair, n, cats, clicks) == <<kind, method, pair, n, cats, clicks>>

Kind(e) == e[1]

MethodOf(e) == e[2]

PairOf(e) == e[3]

TopNOf(e) == e[4]

CategoriesOf(e) == e[5]

ClicksOf(e) == e[6]

NoEvent == Event("none", None, NoneList, 0, {}, 0)

\* create_layout: the three stores as laid out, before any callback has run
InitStores ==
    /\ selected_methods = <<>>
    /\ highlighted_method = None
    /\ highlighted_edge = NoneList
    /\ pending = {"update_selected_methods", "handle_network_clicks"}
    /\ last = NoEvent

InitData ==
    /\ all_methods = IndexList(MethodNames)
    /\ method_totals \in [MethodNames -> 1..MaxTotal]
    /\ \E method_categories \in MethodCategoryFiles :
           method_to_category_map = CategoryMapOf(all_methods, method_categories)

Unused == <<>>

Init ==
    /\ InitData
    /\ InitStores
    /\ cooc_matrix = Unused /\ paper_method_binary = Unused /\ papers_df = Unused
    /\ df = Unused /\ call = Unused /\ outcome = Unused /\ figure = Unused
    /\ matching = Unused /\ alone = Unused /\ panel = Unused

Ready == pending = {}

\* The UI runtime's first invocation of callback 2: nothing triggered, the State
\* values are the layout's (slider at 15, every category ticked).
InitialSelectedMethods ==
    /\ "update_selected_methods" \in pending
    /\ pending' = pending \ {"update_selected_methods"}
    /\ selected_methods' =
           update_selected_methods(NoTrigger, selected_methods, TopNSliderValue,
                                   {"", "Optimization", "Simulation"})
    /\ last' = Event("initial-selected", None, NoneList, TopNSliderValue, {}, 0)
    /\ UNCHANGED <<highlighted_method, highlighted_edge, dataVars, pipeVars, viewVars>>

\* The UI runtime's first invocation of callback 4: nothing triggered.
InitialNetworkClicks ==
    /\ "handle_network_clicks" \in pending
    /\ pending' = pending \ {"handle_network_clicks"}
    /\ LET out == handle_network_clicks(NoTrigger, NoClickData, 0, highlighted_method)
       IN  /\ highlighted_method' = out[1]
           /\ highlighted_edge' = out[2]
    /\ last' = Event("initial-clicks", None, NoneList, 0, {}, 0)
    /\ UNCHANGED <<selected_methods, dataVars, pipeVars, viewVars>>

SearchPick(m) ==
    /\ Ready
    /\ selected_methods' =
           update_selected_methods(MethodButton(m), selected_methods, TopNSliderValue, {})
    /\ last' = Event("search-pick", m, NoneList, 0, {}, 0)
    /\ UNCHANGED <<highlighted_method, highlighted_edge, pending, dataVars, pipeVars, viewVars>>

ApplyTopN(n, categories) ==
    /\ Ready
    /\ selected_methods' =
           update_selected_methods(TriggerOf("apply-top-n"), selected_methods, n, categories)
    /\ last' = Event("apply-top-N", None, NoneList, n, categories, 0)
    /\ UNCHANGED <<highlighted_method, highlighted_edge, pending, dataVars, pipeVars, viewVars>>

\* mutant: clearing the selection is also wired to the highlight stores
ClearSelectionAndHighlight ==
    /\ pending = {}
    /\ selected_methods' = <<>>
    /\ highlighted_method' = None
    /\ highlighted_edge' = NoneList
    /\ last' = <<"clear-selection", None, NoneList, 0, {}, 0>>
    /\ UNCHANGED <<pending, dataVars, pipeVars, viewVars>>

ClearSelection ==
    /\ Ready
    /\ selected_methods' =
           update_selected_methods(TriggerOf("clear-selection"), selected_methods,
                                   TopNSliderValue, {})
    /\ last' = Event("clear-selection", None, NoneList, 0, {}, 0)
    /\ UNCHANGED <<highlighted_method, highlighted_edge, pending, dataVars, pipeVars, viewVars>>

\* One delivery to callback 4: its two outputs are written to the highlight stores.
DeliverClick(trigger, clickData, reset_clicks, event) ==
    /\ Ready
    /\ LET out == handle_network_clicks(trigger, clickData, reset_clicks, highlighted_method)
       IN  /\ highlighted_method' = out[1]
           /\ highlighted_edge' = out[2]
    /\ last' = event
    /\ UNCHANGED <<selected_methods, pending, dataVars, pipeVars, viewVars>>

NodeClick(m) ==
    DeliverClick(TriggerOf("network-plot"), NodePoint(m), 0,
                 Event("node-click", m, NoneList, 0, {}, 0))

EdgeClick(pair) ==
    DeliverClick(TriggerOf("network-plot"), EdgePoint(pair), 0,
                 Event("edge-click", None, pair, 0, {}, 0))

\* the reset button's n_clicks triggers; reset_clicks = 0 is the trigger with zero clicks
Reset(reset_clicks) ==
    DeliverClick(TriggerOf("reset-highlight"), NoClickData, reset_clicks,
                 Event("reset", None, NoneList, 0, {}, reset_clicks))

\* clickData triggers with an empty payload, a point without customdata, or
\* customdata that is neither a str nor a list
EmptyClick(clickData) ==
    DeliverClick(TriggerOf("network-plot"), clickData, 0,
                 Event("empty-click", None, NoneList, 0, {}, 0))

EdgePairs == {<<a, b>> : a \in MethodNames, b \in MethodNames} \ {<<a, a>> : a \in MethodNames}

Next ==
    \/ InitialSelectedMethods
    \/ InitialNetworkClicks
    \/ \E m \in MethodNames : SearchPick(m)
    \/ \E n \in 1..MaxTopN, categories \in CategoryChoices : ApplyTopN(n, categories)
    \/ ClearSelection
    \/ \E m \in MethodNames : NodeClick(m)
    \/ \E pair \in EdgePairs : EdgeClick(pair)
    \/ \E reset_clicks \in 0..MaxClicks : Reset(reset_clicks)
    \/ \E clickData \in {NoClickData, PointWithoutCustomdata, OtherPoint} : EmptyClick(clickData)

Spec == Init /\ [][Next]_vars

(***************************************************************************)
(* Properties of the selection / highlight state machine (Spec)            *)
(***************************************************************************)
NoDuplicates(s) == \A i, j \in 1..Len(s) : i # j => s[i] # s[j]

UnknownEvent(e) ==
    \/ Kind(e) \in {"empty-click", "initial-selected", "initial-clicks"}
    \/ Kind(e) = "reset" /\ ClicksOf(e) = 0

\* C1: highlighted_method and highlighted_edge are never both set; right after an
\* edge-click no method is highlighted, right after a node-click no edge is.
C1_HighlightMutualExclusion ==
    /\ ~(highlighted_method # None /\ highlighted_edge # NoneList)
    /\ Kind(last) = "edge-click" => highlighted_method = None
    /\ Kind(last) = "node-click" => highlighted_edge = NoneList

\* an edge-click has just replaced the focus by its pair
C1_Witness ==
    /\ Kind(last) = "edge-click"
    /\ highlighted_edge = PairOf(last)
    /\ highlighted_method = None

\* C2: an event that is none of search-pick, apply-top-N, clear-selection,
\* node-click, edge-click, reset (an empty click payload, a point without
\* customdata, a reset trigger with zero clicks, an invocation without a trigger)
\* leaves selected_methods, highlighted_method and highlighted_edge as they were.
C2_IdentityOnUnknown ==
    [][UnknownEvent(last') =>
           UNCHANGED <<selected_methods, highlighted_method, highlighted_edge>>]_vars

\* C9: node-click(m) on the highlighted method clears both highlights; on any
\* other method it highlights m and clears the edge highlight.
C9_NodeClickToggle ==
    [][Kind(last') = "node-click" =>
           IF highlighted_method = MethodOf(last')
           THEN highlighted_method' = None /\ highlighted_edge' = NoneList
           ELSE highlighted_method' = MethodOf(last') /\ highlighted_edge' = NoneList]_vars

\* a node-click has just toggled the highlighted method off
C9_Witness ==
    /\ Kind(last) = "node-click"
    /\ highlighted_method = None
    /\ highlighted_edge = NoneList

\* C10: search-pick, apply-top-N and clear-selection leave the two highlights
\* unchanged; node-click, edge-click and reset leave selected_methods unchanged.
C10_StateOwnership ==
    [][/\ Kind(last') \in {"search-pick", "apply-top-N", "clear-selection"} =>
              UNCHANGED <<highlighted_method, highlighted_edge>>
       /\ Kind(last') \in {"node-click", "edge-click", "reset"} =>
              UNCHANGED selected_methods]_vars

\* a selection event has run under a standing edge highlight
C10_Witness ==
    /\ Kind(last) \in {"search-pick", "apply-top-N", "clear-selection"}
    /\ highlighted_edge # NoneList

RankedBefore(a, b) ==
    \/ method_totals[a] > method_totals[b]
    \/ method_totals[a] = method_totals[b] /\ StrLess(a, b)

EligibleFor(categories) ==
    {m \in Range(all_methods) :
        m \in DOMAIN method_to_category_map /\ method_to_category_map[m] \in categories}

\* C7: after apply-top-N(n, categories) selected_methods is the first n (or all, if
\* fewer) of the methods whose category is in categories, ordered by total
\* descending, ties by method name ascending; the previous selection is gone.
C7_ApplyTopNResult ==
    Kind(last) = "apply-top-N" =>
        LET eligible == EligibleFor(CategoriesOf(last))
        IN  /\ Range(selected_methods) \subseteq eligible
            /\ NoDuplicates(selected_methods)
            /\ Len(selected_methods) = Min(TopNOf(last), Cardinality(eligible))
            /\ \A i, j \in 1..Len(selected_methods) :
                   i < j => RankedBefore(selected_methods[i], selected_methods[j])
            /\ \A x \in eligible \ Range(selected_methods), y \in Range(selected_methods) :
                   RankedBefore(y, x)

\* apply-top-N has just cut the list between two methods of equal total
C7_Witness ==
    /\ Kind(last) = "apply-top-N"
    /\ Len(selected_methods) = TopNOf(last)
    /\ \E x \in EligibleFor(CategoriesOf(last)) \ Range(selected_methods), y \in Range(selected_methods) :
           method_totals[x] = method_totals[y]

\* C11: until the first user event is consumed, the initial invocations of the
\* handlers included, the selection is empty and nothing is highlighted.
C11_InitialStateEmpty ==
    Kind(last) \in {"none", "initial-selected", "initial-clicks"} =>
        /\ selected_methods = <<>>
        /\ highlighted_method = None
        /\ highlighted_edge = NoneList

(***************************************************************************)
(* The pipeline: a table is read, then build_cooccurrence_from_methods or  *)
(* load_dashboard_data is called on it once (SpecBuild).                   *)
(***************************************************************************)

\* what a paper of the tables explored holds, paperId apart
\*   1: primary topic in the filter set, one method under two spellings
\*   2: secondary topic in the filter set, two methods
\*   3: both topics in the filter set, a method hyphenated and underscored
\*   4: neither topic in the filter set, one method named twice
RowKinds ==
    << <<2021, 12, 2, 9, << <<"L", "P">>, <<"l", "p">> >> >>,
       <<2019, 3, 9, 5, << <<"l", "p">>, <<"g", "a">> >> >>,
       <<2021, 0, 2, 5, << <<"g", "a">>, <<"l", "-", "p">>, <<"l", "_", "p">> >> >>,
       <<2018, 40, 9, 9, << <<"g", "a">>, <<"g", "a">> >> >> >>

\* most papers of a table explored
NumPapers == 3

\* largest min_papers explored
MaxMinPapers == 2

\* a table: papers 1..n, their contents drawn from RowKinds in non-decreasing order
Tables ==
    LET choices == UNION {[1..n -> 1..Len(RowKinds)] : n \in 0..NumPapers}
        ordered == {c \in choices : \A i, j \in 1..Len(c) : i < j => c[i] <= c[j]}
    IN  {[i \in 1..Len(c) |-> <<i>> \o RowKinds[c[i]]] : c \in ordered}

\* config.TOPIC_INDICES
TOPIC_INDICES == {2, 5, 6, 7, 8, 13}

\* config.MIN_PAPERS_PER_METHOD
MIN_PAPERS_PER_METHOD == 4

YearFilters == {<<>>, <<2020>>}

CitationFilters == {0, 10}

TopicFilters == {<<>>, <<{2, 5}>>}

TopicModes == {ANY, PRIMARY, SECONDARY, BOTH, <<"a", "n", "y">>, <<"X", "O", "R">>}

\* the arguments of a call: <<function, min_papers, year_filter, citation_filter,
\* normalize_methods, topic_filter, topic_mode>>
CallFunction(c) == c[1]

CallMinPapers(c) == c[2]

CallYearFilter(c) == c[3]

CallCitationFilter(c) == c[4]

CallNormalize(c) == c[5]

CallTopicFilter(c) == c[6]

CallTopicMode(c) == c[7]

\* load_dashboard_data from the co-occurrence call on: the no-data result has no
\* .index (line 265), otherwise the metadata is extracted
load_dashboard_data(d, topic_filter) ==
    LET built == build_cooccurrence_from_methods(d, MIN_PAPERS_PER_METHOD, <<>>, 0, TRUE,
                                                 <<topic_filter>>, ANY)
    IN  IF ResultKind(built) = "none" THEN Raised("AttributeError") ELSE built

InitBuild ==
    /\ df \in Tables
    /\ call = Unused /\ outcome = Unused /\ figure = Unused /\ matching = Unused
    /\ alone = Unused /\ panel = Unused
    /\ all_methods = Unused /\ method_totals = Unused /\ method_to_category_map = Unused
    /\ cooc_matrix = Unused /\ paper_method_binary = Unused /\ papers_df = Unused
    /\ InitStores

BuildCall(min_papers, year_filter, citation_filter, normalize_methods, topic_filter, topic_mode) ==
    /\ call = Unused
    /\ call' = <<"build_cooccurrence_from_methods", min_papers, year_filter, citation_filter,
                 normalize_methods, topic_filter, topic_mode>>
    /\ outcome' = build_cooccurrence_from_methods(df, min_papers, year_filter, citation_filter,
                                                  normalize_methods, topic_filter, topic_mode)
    /\ UNCHANGED <<df, viewVars, dataVars, uiVars>>

LoadCall(topic_filter, method_categories) ==
    /\ call = Unused
    /\ call' = <<"load_dashboard_data", MIN_PAPERS_PER_METHOD, <<>>, 0, TRUE,
                 <<topic_filter>>, ANY>>
    /\ LET loaded == load_dashboard_data(df, topic_filter)
       IN  /\ outcome' = loaded
           /\ IF ResultKind(loaded) = "raised"
              THEN UNCHANGED dataVars
              ELSE /\ all_methods' = ResultIndex(loaded)
                   /\ method_totals' = ResultTotals(loaded)
                   /\ method_to_category_map' =
                          CategoryMapOf(ResultIndex(loaded), method_categories)
                   /\ cooc_matrix' = <<ResultIndex(loaded), ResultCooc(loaded)>>
                   /\ paper_method_binary' =
                          <<Range(ResultIndex(loaded)), ResultPapers(loaded),
                            ResultIncidence(loaded)>>
                   \* lines 251-261: the rows with a topic in the filter
                   /\ papers_df' =
                          LET InTopics(row) == TopicMask(row, topic_filter, ANY)
                              Paper(row) == <<PaperId(row), Year(row), CitationCount(row)>>
                              df_filtered == SelectSeq(df, InTopics)
                          IN  [k \in 1..Len(df_filtered) |-> Paper(df_filtered[k])]
    /\ UNCHANGED <<df, viewVars, uiVars>>

NextBuild ==
    \/ \E min_papers \in 1..MaxMinPapers, year_filter \in YearFilters,
          citation_filter \in CitationFilters, normalize_methods \in BOOLEAN,
          topic_filter \in TopicFilters, topic_mode \in TopicModes :
           BuildCall(min_papers, year_filter, citation_filter, normalize_methods,
                     topic_filter, topic_mode)
    \/ \E topic_filter \in {TOPIC_INDICES, {5}}, method_categories \in MethodCategoryFiles :
           LoadCall(topic_filter, method_categories)

SpecBuild == InitBuild /\ [][NextBuild]_vars

(***************************************************************************)
(* Properties of the pipeline (SpecBuild)                                  *)
(***************************************************************************)
Called(function) == call # Unused /\ CallFunction(call) = function

ValidModes == {ANY, PRIMARY, SECONDARY, BOTH}

\* a paper passes the filters of the call made: year and citation thresholds, and
\* topic membership by mode
PassesFilters(row) ==
    /\ CallYearFilter(call) = <<>> \/ Year(row) >= CallYearFilter(call)[1]
    /\ CitationCount(row) >= CallCitationFilter(call)
    /\ \/ CallTopicFilter(call) = <<>>
       \/ LET topics == CallTopicFilter(call)[1]
              mode == Upper(CallTopicMode(call))
          IN  \/ mode = ANY /\ (PrimaryTopic(row) \in topics \/ SecondaryTopic(row) \in topics)
              \/ mode = PRIMARY /\ PrimaryTopic(row) \in topics
              \/ mode = SECONDARY /\ SecondaryTopic(row) \in topics
              \/ mode = BOTH /\ PrimaryTopic(row) \in topics /\ SecondaryTopic(row) \in topics

FilteredPapers == {k \in 1..Len(df) : PassesFilters(df[k])}

\* the methods a paper mentions, as the call names them
MentionsOf(row) ==
    {IF CallNormalize(call) THEN normalize_method_name(row[6][i]) ELSE row[6][i] :
        i \in 1..Len(row[6])} \ {NaN}

\* the number of distinct filtered papers that mention a method
Support(method) == Cardinality({k \in FilteredPapers : method \in MentionsOf(df[k])})

\* C3: a method is in the matrices build_cooccurrence_from_methods returns exactly
\* when the number of distinct filtered papers mentioning it is >= min_papers, and
\* every method in them has method_totals >= min_papers.
C3_MinSupportCountsPapers ==
    (Called("build_cooccurrence_from_methods") /\ ResultKind(outcome) = "matrices") =>
        /\ \A method \in UNION {MentionsOf(df[k]) : k \in FilteredPapers} :
               method \in Range(ResultIndex(outcome))
                   <=> Support(method) >= CallMinPapers(call)
        /\ \A method \in Range(ResultIndex(outcome)) :
               ResultTotals(outcome)[method] >= CallMinPapers(call)

\* C4: when the filters leave no paper, build_cooccurrence_from_methods returns the
\* no-data result and load_dashboard_data completes without raising.
C4_EmptyAfterFiltersNonFatal ==
    /\ (/\ Called("build_cooccurrence_from_methods")
        /\ Upper(CallTopicMode(call)) \in ValidModes
        /\ FilteredPapers = {}) => ResultKind(outcome) = "none"
    /\ (Called("load_dashboard_data") /\ Len(df) > 0 /\ FilteredPapers = {}) =>
           ResultKind(outcome) # "raised"

\* C5: a call of build_cooccurrence_from_methods whose topic_mode is none of ANY,
\* PRIMARY, SECONDARY, BOTH (read without regard to case, as the code reads it)
\* ends in an error, whatever the other arguments are.
C5_InvalidModeAlwaysFails ==
    (Called("build_cooccurrence_from_methods")
        /\ Upper(CallTopicMode(call)) \notin ValidModes) =>
        ResultKind(outcome) = "raised"

Built == Called("build_cooccurrence_from_methods") /\ ResultKind(outcome) = "matrices"

\* the papers of the incidence matrix returned that have a 1 for every method of a set
PapersWithAll(methods) ==
    {q \in ResultPapers(outcome) : \A m \in methods : ResultIncidence(outcome)[<<q, m>>] = 1}

\* C12: cooc[a,b] is the number of papers with incidence 1 for both a and b, so
\* cooc[a,b] = cooc[b,a]; method_totals[a] is the number of papers with incidence
\* 1 for a.
C12_CoocCounts ==
    Built =>
        /\ \A a, b \in Range(ResultIndex(outcome)) :
               a # b => /\ ResultCooc(outcome)[<<a, b>>] = Cardinality(PapersWithAll({a, b}))
                        /\ ResultCooc(outcome)[<<a, b>>] = ResultCooc(outcome)[<<b, a>>]
        /\ \A a \in Range(ResultIndex(outcome)) :
               ResultTotals(outcome)[a] = Cardinality(PapersWithAll({a}))

\* matrices in which two methods share two papers and one of them has a third
C12_Witness ==
    /\ Built
    /\ \E a, b \in Range(ResultIndex(outcome)) :
           /\ a # b
           /\ ResultCooc(outcome)[<<a, b>>] = 2
           /\ ResultTotals(outcome)[a] = 3

\* the cells of a paper that name a method, as the call made names them
CellsNaming(row, method) ==
    {i \in 1..Len(row[6]) :
        method = IF CallNormalize(call) THEN normalize_method_name(row[6][i]) ELSE row[6][i]}

\* C13: for every paper P of the incidence matrix and every surviving method M,
\* incidence[P,M] is 1 when at least one of P's mentions normalizes to M and 0
\* otherwise; repeated mentions of M in P give 1, never a count.
C13_IncidenceIsSetUnionBit ==
    Built =>
        \A q \in ResultPapers(outcome), method \in Range(ResultIndex(outcome)) :
            /\ q \in FilteredPapers
            /\ ResultIncidence(outcome)[<<q, method>>] \in {0, 1}
            /\ ResultIncidence(outcome)[<<q, method>>] = 1
                   <=> CellsNaming(df[q], method) # {}

\* a paper that names a surviving method in two of its cells, and a paper of the
\* matrix that does not name it
C13_Witness ==
    /\ Built
    /\ \E q, r \in ResultPapers(outcome), method \in Range(ResultIndex(outcome)) :
           /\ Cardinality(CellsNaming(df[q], method)) >= 2
           /\ CellsNaming(df[r], method) = {}

\* C14: the papers that survive the filters of build_cooccurrence_from_methods are
\* exactly those with year >= year_filter, citationCount >= citation_filter and
\* topic membership by mode (ANY: primary or secondary in the set, PRIMARY:
\* primary, SECONDARY: secondary, BOTH: both).
C14_FilterSemantics ==
    (Called("build_cooccurrence_from_methods") /\ ResultKind(outcome) # "raised") =>
        /\ ResultWork(outcome) = FilteredPapers
        /\ ResultKind(outcome) = "none" <=> FilteredPapers = {}

\* BOTH with {2, 5} has dropped a paper with primary 2 and secondary 9 and kept
\* another paper
C14_Witness ==
    /\ Called("build_cooccurrence_from_methods")
    /\ Upper(CallTopicMode(call)) = BOTH
    /\ CallTopicFilter(call) = <<{2, 5}>>
    /\ ResultKind(outcome) = "matrices"
    /\ \E k \in 1..Len(df) :
           /\ PrimaryTopic(df[k]) = 2 /\ SecondaryTopic(df[k]) = 9
           /\ k \notin ResultWork(outcome)
    /\ ResultWork(outcome) # {}

(***************************************************************************)
(* The network plot: callback 5 draws the figure from the stores and the   *)
(* sliders, again on every change of them (SpecPlot).                      *)
(***************************************************************************)

\* largest co-occurrence count of a matrix explored
MaxWeight == 2

\* largest position of the max-edges slider explored
MaxEdges == 2

UnorderedPairs == {SortedPair(a, b) : a \in MethodNames, b \in MethodNames} \ {<<a, a>> : a \in MethodNames}

\* the symmetric co-occurrence matrices over MethodNames with counts 0..MaxWeight
CoocMatrices ==
    {<<IndexList(MethodNames),
       [c \in EdgePairs |-> w[SortedPair(c[1], c[2])]]>> :
        w \in [UnorderedPairs -> 0..MaxWeight]}

\* the lists without repetition over a set: what the selection store can hold
RECURSIVE ListsOver(_)
ListsOver(S) ==
    {<<>>} \cup UNION {{<<x>> \o rest : rest \in ListsOver(S \ {x})} : x \in S}

InitPlot ==
    /\ all_methods = IndexList(MethodNames)
    /\ method_totals = [m \in MethodNames |-> 1]
    /\ \E method_categories \in MethodCategoryFiles :
           method_to_category_map = CategoryMapOf(all_methods, method_categories)
    /\ cooc_matrix \in CoocMatrices
    /\ selected_methods \in ListsOver(MethodNames)
    /\ highlighted_method = None
    /\ highlighted_edge = NoneList
    /\ pending = {}
    /\ last = NoEvent
    /\ paper_method_binary = Unused /\ papers_df = Unused /\ matching = Unused
    /\ alone = Unused /\ panel = Unused
    /\ df = Unused /\ call = Unused /\ outcome = Unused /\ figure = Unused

\* update_network_and_papers, as far as the figure goes
DrawNetwork(selected_categories, min_cooc, max_edges) ==
    /\ call' = <<"create_network_plot", selected_categories, min_cooc, max_edges>>
    /\ figure' = create_network_plot(cooc_matrix, selected_methods, selected_categories,
                                     min_cooc, max_edges)
    /\ UNCHANGED <<df, outcome, matching, alone, panel, dataVars, uiVars>>

NextPlot ==
    \E selected_categories \in CategoryChoices, min_cooc \in 1..MaxWeight,
       max_edges \in 1..MaxEdges :
        DrawNetwork(selected_categories, min_cooc, max_edges)

SpecPlot == InitPlot /\ [][NextPlot]_vars

PlotCategories == call[2]

PlotMinCooc == call[3]

PlotMaxEdges == call[4]

Drawn == figure # Unused /\ FigureKind(figure) = "network"

\* C6: every source node contributes at most max_edges candidate edges, to
\* distinct neighbours, to edge_list; every edge of unique_edges has weight
\* >= min_cooc and joins two distinct nodes of the node set.
C6_EdgeSelectionBounds ==
    Drawn =>
        LET edge_list == EdgeListOf(figure)
            unique_edges == UniqueEdgesOf(figure)
            nodes == Range(MethodsToPlot(figure))
            From(m) == {i \in 1..Len(edge_list) : Source(edge_list[i]) = m}
        IN  /\ \A m \in nodes :
                   /\ Cardinality(From(m)) <= PlotMaxEdges
                   /\ \A i, j \in From(m) :
                          i # j => Target(edge_list[i]) # Target(edge_list[j])
            /\ \A i \in 1..Len(edge_list) : Source(edge_list[i]) \in nodes
            /\ \A pair \in DOMAIN unique_edges :
                   LET edge == unique_edges[pair]
                   IN  /\ Weight(edge) >= PlotMinCooc
                       /\ Weight(edge) = CoocAt(cooc_matrix, Source(edge), Target(edge))
                       /\ Source(edge) \in nodes /\ Target(edge) \in nodes
                       /\ Source(edge) # Target(edge)

\* a node with more neighbours above the threshold than max_edges has been drawn
C6_Witness ==
    /\ Drawn
    /\ DOMAIN UniqueEdgesOf(figure) # {}
    /\ \E m \in Range(MethodsToPlot(figure)) :
           Cardinality({m2 \in Range(MethodsToPlot(figure)) \ {m} :
                            CoocAt(cooc_matrix, m, m2) >= PlotMinCooc}) > PlotMaxEdges

\* the positions of edge_list that propose the unordered pair {a, b}
Proposals(a, b) ==
    {i \in 1..Len(EdgeListOf(figure)) :
        {Source(EdgeListOf(figure)[i]), Target(EdgeListOf(figure)[i])} = {a, b}}

\* C20: unique_edges holds no unordered pair twice; the weight stored for {a,b} is
\* the largest weight proposed for it and equals cooc[a,b]; and {a,b} is present
\* exactly when it is among the kept candidates of a or of b.
C20_EdgeDeduplication ==
    Drawn =>
        LET edge_list == EdgeListOf(figure)
            unique_edges == UniqueEdgesOf(figure)
            nodes == Range(MethodsToPlot(figure))
        IN  /\ \A p, q \in DOMAIN unique_edges : {p[1], p[2]} = {q[1], q[2]} => p = q
            /\ \A pair \in DOMAIN unique_edges :
                   /\ {Source(unique_edges[pair]), Target(unique_edges[pair])}
                          = {pair[1], pair[2]}
                   /\ \A i \in Proposals(pair[1], pair[2]) :
                          Weight(unique_edges[pair]) >= Weight(edge_list[i])
                   /\ \E i \in Proposals(pair[1], pair[2]) :
                          Weight(unique_edges[pair]) = Weight(edge_list[i])
                   /\ Weight(unique_edges[pair]) = CoocAt(cooc_matrix, pair[1], pair[2])
            /\ \A a, b \in nodes :
                   a # b => (SortedPair(a, b) \in DOMAIN unique_edges
                                <=> Proposals(a, b) # {})

\* a pair proposed from both of its endpoints and a pair proposed from one only
C20_Witness ==
    /\ Drawn
    /\ \E a, b, c, d \in Range(MethodsToPlot(figure)) :
           /\ a # b /\ c # d
           /\ Cardinality(Proposals(a, b)) = 2
           /\ Cardinality(Proposals(c, d)) = 1
           /\ StrLess(d, c)
           /\ Source(EdgeListOf(figure)[CHOOSE i \in Proposals(c, d) : TRUE]) = c

\* no node drawn has two candidate neighbours of equal weight
NoTies ==
    \A m, a, b \in Range(MethodsToPlot(figure)) :
        (/\ a # m /\ b # m /\ a # b
         /\ CoocAt(cooc_matrix, m, a) >= PlotMinCooc
         /\ CoocAt(cooc_matrix, m, b) >= PlotMinCooc)
            => CoocAt(cooc_matrix, m, a) # CoocAt(cooc_matrix, m, b)

NumEdges == Cardinality(DOMAIN UniqueEdgesOf(figure))

NumNodes == Cardinality(Range(MethodsToPlot(figure)))

\* C21 as stated: when no node has two candidate neighbours of equal weight, the
\* deduplicated edge count is at most max_per_node * |node_set| / 2.
C21_HalfBoundWithoutTies ==
    (Drawn /\ NoTies) => 2 * NumEdges <= PlotMaxEdges * NumNodes

\* C21, amended: the deduplicated edge count is at most max_per_node * |node_set|,
\* ties or not: edge_list holds at most max_per_node edges per node, and every
\* deduplicated edge stands for one or two of them.
C21_EdgeCountBound ==
    Drawn =>
        /\ Len(EdgeListOf(figure)) <= PlotMaxEdges * NumNodes
        /\ NumEdges <= Len(EdgeListOf(figure))
        /\ 2 * NumEdges >= Len(EdgeListOf(figure))

\* without any tie, more edges than max_per_node * |node_set| / 2 have been drawn
C21_Witness ==
    /\ Drawn
    /\ NoTies
    /\ 2 * NumEdges > PlotMaxEdges * NumNodes
    /\ \E m \in Range(MethodsToPlot(figure)) :
           Cardinality({i \in 1..Len(EdgeListOf(figure)) :
                            Source(EdgeListOf(figure)[i]) = m}) = PlotMaxEdges

Plotted == call # Unused /\ call[1] = "create_network_plot"

\* C19: with every category ticked, a method of the co-occurrence matrix that has
\* no entry in method_to_category_map is among the nodes drawn, when it is
\* selected and when the selection is empty.
C19_UncategorizedRendered ==
    (Plotted /\ PlotCategories = {"Optimization", "Simulation"}) =>
        \A m \in Range(CoocIndex(cooc_matrix)) :
            (/\ m \notin DOMAIN method_to_category_map
             /\ selected_methods = <<>> \/ m \in Range(selected_methods))
                => m \in Range(MethodsToPlot(figure))

(***************************************************************************)
(* The paper lookup: get_papers_for_methods over the loaded incidence      *)
(* matrix and paper table (SpecPapers).                                    *)
(***************************************************************************)

\* (year, citationCount) of the papers explored
PaperKinds == << <<2020, 50>>, <<2020, 2000>>, <<2021, 0>> >>

\* most rows of papers_df explored
MaxRows == 3

\* largest top_n explored
MaxTopPapers == 2

\* the incidence columns of the sessions explored; MC is a method without a column
IncidenceColumns == {GA, LP}

\* papers 1..n, their year and citations drawn from PaperKinds in non-decreasing order
PaperTables ==
    LET choices == UNION {[1..n -> 1..Len(PaperKinds)] : n \in 0..MaxRows}
        ordered == {c \in choices : \A i, j \in 1..Len(c) : i < j => c[i] <= c[j]}
    IN  {[i \in 1..Len(c) |-> <<i>> \o PaperKinds[c[i]]] : c \in ordered}

\* the incidence matrix of a paper table: a paper with no surviving method has no row
IncidenceOf(named) ==
    LET index == {q \in DOMAIN named : named[q] # {}}
    IN  <<IncidenceColumns, index,
          [c \in index \X IncidenceColumns |-> IF c[2] \in named[c[1]] THEN 1 ELSE 0]>>

InitPapers ==
    /\ papers_df \in PaperTables
    /\ \E named \in [1..Len(papers_df) -> SUBSET IncidenceColumns] :
           paper_method_binary = IncidenceOf(named)
    /\ all_methods = Unused /\ method_totals = Unused /\ method_to_category_map = Unused
    /\ cooc_matrix = Unused
    /\ df = Unused /\ call = Unused /\ outcome = Unused /\ figure = Unused
    /\ matching = Unused /\ alone = Unused /\ panel = Unused
    /\ InitStores

\* a call of get_papers_for_methods
LookUpPapers(method1, method2, top_n) ==
    /\ call' = <<"get_papers_for_methods", method1, method2, top_n>>
    /\ matching' \in get_papers_for_methods(method1, method2, top_n)
    /\ UNCHANGED <<df, outcome, figure, alone, panel, dataVars, uiVars>>

NextPapers ==
    \E method1 \in MethodNames, method2 \in MethodNames, top_n \in 1..MaxTopPapers :
        LookUpPapers(method1, method2, top_n)

SpecPapers == InitPapers /\ [][NextPapers]_vars

LookedUp == call # Unused /\ call[1] = "get_papers_for_methods"

\* the rows of papers_df whose paper has incidence 1 for both methods of the call
SharedRows ==
    {k \in 1..Len(papers_df) :
        /\ {call[2], call[3]} \subseteq Columns(paper_method_binary)
        /\ PaperId(papers_df[k]) \in PaperIndex(paper_method_binary)
        /\ Cells(paper_method_binary)[<<PaperId(papers_df[k]), call[2]>>] = 1
        /\ Cells(paper_method_binary)[<<PaperId(papers_df[k]), call[3]>>] = 1}

\* C15: get_papers_for_methods(a, b, top_n) returns only papers with incidence 1
\* for both a and b, at most top_n of them (top_n when there are that many), in
\* non-increasing order of year*100 + citationCount/10, no omitted shared paper
\* scoring higher than a returned one; it returns the empty frame when a or b is
\* not a column or no paper has both.
C15_PaperLookup ==
    LookedUp =>
        LET returned == {k \in SharedRows : \E i \in 1..Len(matching) : matching[i] = papers_df[k]}
        IN  /\ \A i \in 1..Len(matching) : \E k \in SharedRows : matching[i] = papers_df[k]
            /\ \A i, j \in 1..Len(matching) : i # j => matching[i] # matching[j]
            /\ Len(matching) = Min(call[4], Cardinality(SharedRows))
            /\ \A i, j \in 1..Len(matching) :
                   i < j => score(matching[i]) >= score(matching[j])
            /\ \A k \in SharedRows \ returned, i \in 1..Len(matching) :
                   score(papers_df[k]) <= score(matching[i])
            /\ SharedRows = {} => matching = <<>>

\* two papers returned in order of different scores, a third shared paper left out
C15_Witness ==
    /\ LookedUp
    /\ Len(matching) = 2
    /\ score(matching[1]) > score(matching[2])
    /\ Cardinality(SharedRows) = 3

\* C16: of two papers returned, the one of the later year is ranked first,
\* whatever the citation counts.
C16_RecencyDominates ==
    LookedUp =>
        \A i, j \in 1..Len(matching) :
            Year(matching[i]) > Year(matching[j]) => i < j

(***************************************************************************)
(* The normalizer: normalize_method_name applied to a raw cell, then to    *)
(* its own result (SpecNormalize).                                         *)
(***************************************************************************)

\* the pieces the raw method strings explored are made of
Pieces ==
    { <<"c", "o", "l", "o">>, <<"u">>, <<"r">>, <<" ">>, <<"-">>, <<"_">>,
      <<"O", "p", "t", "i", "m", "i", "s">>, <<"e">>, <<"d">> }

\* most pieces of a raw method string explored
MaxPieces == 3

RECURSIVE Concatenations(_)
Concatenations(n) ==
    IF n = 0 THEN {<<>>}
    ELSE LET shorter == Concatenations(n - 1)
         IN  shorter \cup {piece \o text : piece \in Pieces, text \in shorter}

\* a raw cell: a string of pieces, or a missing value
RawCells == Concatenations(MaxPieces) \cup {NaN}

\* a call: <<"normalize_method_name", the argument, the raw cell it derives from>>
InitNormalize ==
    /\ call = Unused /\ outcome = Unused
    /\ df = Unused /\ figure = Unused /\ matching = Unused /\ alone = Unused /\ panel = Unused
    /\ all_methods = Unused /\ method_totals = Unused /\ method_to_category_map = Unused
    /\ cooc_matrix = Unused /\ paper_method_binary = Unused /\ papers_df = Unused
    /\ InitStores

\* df_work[col].apply(normalize_method_name), one cell
Normalize(method) ==
    /\ call = Unused
    /\ call' = <<"normalize_method_name", method, method>>
    /\ outcome' = normalize_method_name(method)
    /\ UNCHANGED <<df, viewVars, dataVars, uiVars>>

\* the same on a cell that already holds a result (data_processing.py:259 after 157)
Renormalize ==
    /\ Called("normalize_method_name")
    /\ call' = <<"normalize_method_name", outcome, call[3]>>
    /\ outcome' = normalize_method_name(outcome)
    /\ UNCHANGED <<df, viewVars, dataVars, uiVars>>

NextNormalize ==
    \/ \E method \in RawCells : Normalize(method)
    \/ Renormalize

SpecNormalize == InitNormalize /\ [][NextNormalize]_vars

\* C17: normalizing the result of normalize_method_name returns it unchanged, and
\* a missing value is returned as it is.
C17_NormalizerIdempotent ==
    [][/\ (Called("normalize_method_name") /\ call'[2] = outcome) => outcome' = outcome
       /\ (call' # Unused /\ call'[2] = NaN) => outcome' = NaN]_vars

\* a result that differs from the raw cell it came from has been normalized again
C17_Witness ==
    /\ Called("normalize_method_name")
    /\ call[3] # NaN
    /\ Len(call[2]) < Len(call[3])
    /\ call[2] = <<"c", "o", "l", "o", "r">>
    /\ outcome = call[2]

(***************************************************************************)
(* Two users against one server process (SpecSessions).  Each browser      *)
(* holds its own three dcc.Store values; a request carries the State       *)
(* values read from the sender's stores, the server runs the callback on   *)
(* them and on the loaded data, and the response is written to the         *)
(* sender's stores.  Here the store variables are functions of the user,   *)
(* and pending is the set of requests in flight, each                      *)
(* <<user, event, State values>>.                                          *)
(***************************************************************************)
Users == {1, 2}

\* largest position of the top-n slider explored in a two-user session
MaxSessionTopN == 2

\* the stores of one user: <<selected_methods, highlighted_method, highlighted_edge>>
StoresOf(user) ==
    <<selected_methods[user], highlighted_method[user], highlighted_edge[user]>>

\* State values read from one copy of the stores, whoever sends the request
StoresRead_process_wide(user) ==
    <<selected_methods[1], highlighted_method[1], highlighted_edge[1]>>

\* State('selected-methods-store', 'data'), State('highlighted-method-store',
\* 'data'): read from the stores of the browser that sends the request
StoresRead(user) == StoresOf(user)

OfCallback2(event) ==
    Kind(event) \in {"initial-selected", "search-pick", "apply-top-N", "clear-selection"}

\* the stores after the response to an event: the callback runs on the State
\* values of the request, and its Outputs replace the stores they name
Served(event, state, stores) ==
    IF OfCallback2(event)
    THEN LET trigger == IF Kind(event) = "initial-selected" THEN NoTrigger
                        ELSE IF Kind(event) = "search-pick" THEN MethodButton(MethodOf(event))
                        ELSE IF Kind(event) = "apply-top-N" THEN TriggerOf("apply-top-n")
                        ELSE TriggerOf("clear-selection")
         IN  <<update_selected_methods(trigger, state[1], TopNOf(event), CategoriesOf(event)),
               stores[2], stores[3]>>
    ELSE LET trigger == IF Kind(event) = "initial-clicks" THEN NoTrigger
                        ELSE IF Kind(event) = "reset" THEN TriggerOf("reset-highlight")
                        ELSE TriggerOf("network-plot")
             clickData == IF Kind(event) = "node-click" THEN NodePoint(MethodOf(event))
                          ELSE IF Kind(event) = "edge-click" THEN EdgePoint(PairOf(event))
                          ELSE NoClickData
             out == handle_network_clicks(trigger, clickData, ClicksOf(event), state[2])
         IN  <<stores[1], out[1], out[2]>>

InitialEvents ==
    { Event("initial-selected", None, NoneList, TopNSliderValue, {"Optimization"}, 0),
      Event("initial-clicks", None, NoneList, 0, {}, 0) }

\* what a user can do in the sessions explored
UserEvents ==
    {Event("search-pick", m, NoneList, TopNSliderValue, {}, 0) : m \in {GA, LP}}
        \cup {Event("apply-top-N", None, NoneList, n, {"Optimization"}, 0) :
                  n \in 1..MaxSessionTopN}
        \cup {Event("clear-selection", None, NoneList, TopNSliderValue, {}, 0)}
        \cup {Event("node-click", m, NoneList, 0, {}, 0) : m \in {GA, LP}}
        \cup {Event("edge-click", None, <<GA, LP>>, 0, {}, 0),
              Event("reset", None, NoneList, 0, {}, 1)}

InitSessions ==
    /\ all_methods = <<GA, LP>>
    /\ method_totals = [m \in {GA, LP} |-> IF m = GA THEN 1 ELSE 2]
    /\ method_to_category_map = [m \in {GA, LP} |-> "Optimization"]
    /\ selected_methods = [u \in Users |-> <<>>]
    /\ highlighted_method = [u \in Users |-> None]
    /\ highlighted_edge = [u \in Users |-> NoneList]
    /\ alone = [u \in Users |-> <<<<>>, None, NoneList>>]
    \* each browser loads the page: the two untriggered invocations are on their way
    /\ pending = {<<u, event, <<<<>>, None, NoneList>>>> : u \in Users, event \in InitialEvents}
    /\ last = NoEvent
    /\ cooc_matrix = Unused /\ paper_method_binary = Unused /\ papers_df = Unused
    /\ df = Unused /\ call = Unused /\ outcome = Unused /\ figure = Unused
    /\ matching = Unused /\ panel = Unused

\* a browser sends the request of an event, once its earlier requests are answered
Request(user, event) ==
    /\ \A request \in pending : request[1] # user
    /\ pending' = pending \cup {<<user, event, StoresRead(user)>>}
    /\ UNCHANGED <<selected_methods, highlighted_method, highlighted_edge, last,
                   dataVars, pipeVars, viewVars>>

\* the server answers a request of a user; the user's browser writes the Outputs
Serve(user) ==
    \E request \in pending :
        /\ request[1] = user
        /\ pending' = pending \ {request}
        /\ LET after == Served(request[2], request[3], StoresOf(user))
           IN  /\ selected_methods' = [selected_methods EXCEPT ![user] = after[1]]
               /\ highlighted_method' = [highlighted_method EXCEPT ![user] = after[2]]
               /\ highlighted_edge' = [highlighted_edge EXCEPT ![user] = after[3]]
               /\ alone' = [alone EXCEPT ![user] =
                                Served(request[2], alone[user], alone[user])]
        /\ UNCHANGED <<last, dataVars, pipeVars, figure, matching, panel>>

NextSessions ==
    \/ \E user \in Users, event \in UserEvents : Request(user, event)
    \/ \E user \in Users : Serve(user)

SpecSessions == InitSessions /\ [][NextSessions]_vars

\* C18: however the two users' events interleave, each user's three stores are
\* what that user's events alone would have made them, and a step that serves one
\* user leaves the other user's stores as they were.
C18_SessionIsolation ==
    [][\A user \in Users :
           /\ StoresOf(user)' = alone'[user]
           /\ (\A request \in pending \ pending' : request[1] # user)
                  => StoresOf(user)' = StoresOf(user)]_vars

\* both users have been served events of their own, and a request is in flight
C18_Witness ==
    /\ highlighted_edge[1] # NoneList
    /\ highlighted_method[2] # None
    /\ selected_methods[1] # selected_methods[2]
    /\ selected_methods[1] # <<>> /\ selected_methods[2] # <<>>
    /\ \E request \in pending : request[1] = 2 /\ Kind(request[2]) = "search-pick"

(***************************************************************************)
(* The paper panel: callback 5 runs after every write to a store and shows *)
(* or hides the paper-details panel (SpecPanel).  pending holds the        *)
(* callbacks that are still to run; a user event is taken once none is.    *)
(***************************************************************************)

\* dcc.Slider(id='min-cooc-slider', ..., value=5)
MinCoocSliderValue == 5

\* dcc.Slider(id='max-edges-slider', ..., value=5)
MaxEdgesSliderValue == 5

\* get_papers_for_methods(method1, method2, top_n=5)
PanelTopN == 5

\* html.Div(..., id='paper-details-panel', style={..., 'display': 'none'})
PanelAsLaidOut == <<"none", <<>>, <<>>>>

\* a panel that is never opened
EdgeInFocus_never(edge) == FALSE

\* if highlighted_edge and len(highlighted_edge) == 2
EdgeInFocus(edge) == edge # NoneList /\ edge # <<>> /\ Len(edge) = 2

\* the outputs update_network_and_papers can return:
\*   <<fig, panel_style's display, the pair of the title, the papers of the content>>
update_network_and_papers(selected, selected_categories, min_cooc, max_edges, edge) ==
    LET fig == create_network_plot(cooc_matrix, selected, selected_categories,
                                   min_cooc, max_edges)
    IN  IF EdgeInFocus(edge)
        THEN {<<fig, "block", <<edge[1], edge[2]>>, found>> :
                 found \in get_papers_for_methods(edge[1], edge[2], PanelTopN)}
        ELSE {<<fig, "none", <<>>, <<>>>>}

InitPanel ==
    /\ all_methods = <<GA, LP>>
    /\ method_totals = [m \in {GA, LP} |-> IF m = GA THEN 1 ELSE 2]
    /\ method_to_category_map = [m \in {GA, LP} |-> "Optimization"]
    /\ cooc_matrix = <<all_methods, [c \in {<<GA, LP>>, <<LP, GA>>} |-> 1]>>
    /\ papers_df \in PaperTables
    /\ \E named \in [1..Len(papers_df) -> {{GA, LP}, {GA}}] :
           paper_method_binary = IncidenceOf(named)
    /\ InitStores
    /\ panel = PanelAsLaidOut
    /\ figure = Unused /\ matching = Unused /\ alone = Unused
    /\ df = Unused /\ call = Unused /\ outcome = Unused

\* the clicks and picks of the sessions explored, and a click on empty canvas
PanelEvents == UserEvents \cup {Event("edge-click", None, <<LP, GA>>, 0, {}, 0),
                                Event("empty-click", None, NoneList, 0, {}, 0)}

\* an event reaches its callback, whose Outputs are written to the stores; the
\* stores are Inputs of callback 5, which is then due
Deliver(event) ==
    LET stores == <<selected_methods, highlighted_method, highlighted_edge>>
        after == Served(event, stores, stores)
    IN  /\ selected_methods' = after[1]
        /\ highlighted_method' = after[2]
        /\ highlighted_edge' = after[3]
        /\ last' = event
        /\ UNCHANGED <<dataVars, pipeVars, viewVars>>

\* the runtime's untriggered first invocation of callback 2 or of callback 4
InitialInvocation(event) ==
    LET name == IF OfCallback2(event) THEN "update_selected_methods"
                ELSE "handle_network_clicks"
    IN  /\ name \in pending
        /\ pending' = (pending \ {name}) \cup {"update_network_and_papers"}
        /\ Deliver(event)

UserEvent(event) ==
    /\ Ready
    /\ pending' = {"update_network_and_papers"}
    /\ Deliver(event)

\* callback 5, with the checklist and the sliders as laid out
UpdateNetworkAndPapers ==
    /\ "update_network_and_papers" \in pending
    /\ pending' = pending \ {"update_network_and_papers"}
    /\ \E out \in update_network_and_papers(selected_methods, {"Optimization"},
                                            MinCoocSliderValue, MaxEdgesSliderValue,
                                            highlighted_edge) :
           /\ figure' = out[1]
           /\ panel' = <<out[2], out[3], out[4]>>
    /\ UNCHANGED <<selected_methods, highlighted_method, highlighted_edge, last,
                   matching, alone, dataVars, pipeVars>>

NextPanel ==
    \/ \E event \in InitialEvents : InitialInvocation(event)
    \/ \E event \in PanelEvents : UserEvent(event)
    \/ UpdateNetworkAndPapers

SpecPanel == InitPanel /\ [][NextPanel]_vars

\* C22: once the callbacks have run, the paper panel is shown exactly when
\* highlighted_edge holds a pair of two methods, and then with the papers of that
\* pair; so it is shown after an edge-click and hidden after a node-click and
\* after a reset; a reset leaves highlighted_method and highlighted_edge none.
C22_PanelFollowsEdge ==
    /\ (Ready /\ last # NoEvent) =>
           /\ panel[1] = "block"
                  <=> (highlighted_edge # NoneList /\ Len(highlighted_edge) = 2)
           /\ panel[1] = "block" =>
                  /\ panel[2] = highlighted_edge
                  /\ panel[3] \in
                         get_papers_for_methods(highlighted_edge[1], highlighted_edge[2],
                                                PanelTopN)
           /\ Kind(last) = "edge-click" =>
                  panel[1] = "block" /\ panel[2] = PairOf(last)
           /\ Kind(last) \in {"node-click", "reset"} => panel[1] = "none"
    /\ Kind(last) = "reset" => highlighted_method = None /\ highlighted_edge = NoneList

\* after an edge-click the panel lists the papers of the pair
C22_Witness ==
    /\ Ready
    /\ Kind(last) = "edge-click"
    /\ panel[1] = "block"
    /\ Len(panel[3]) >= 2

====
